---------------------------- MODULE Spec2Model ----------------------------
(***************************************************************************)
(* A model of Dashboard/dashb.py, the Streamlit dashboard "Food            *)
(* Affordability in Ireland (2014-2024)".                                  *)
(*                                                                         *)
(* The script is executed top to bottom once per run: it reads four CSV    *)
(* files, draws the navigation selectbox, dispatches on the selection to   *)
(* one of four render routines and emits the footer.  Streamlit starts a   *)
(* new run of the whole script whenever the user changes a widget.         *)
(*                                                                         *)
(* Numbers: the script computes in IEEE doubles; the model computes in     *)
(* exact rationals <<numerator, denominator>> and writes a missing value   *)
(* (pandas NaN) as the empty tuple.  Prices and costs are positive.        *)
(* Dates are monthly: <<year, month>> in a file, and the month ordinal     *)
(* 12 * year + month - 1 once parsed (parse_dates), so the order of the    *)
(* ordinals is the order of the dates.                                     *)
(***************************************************************************)
EXTENDS Integers, Sequences, FiniteSets, TLC

VARIABLES
    disk,          \* the four files of ../data: status and rows
    pandas_fill,   \* what pct_change() does with missing values in this build
    pc,            \* position of the running script
    runs,          \* number of script runs started in this process
    nreads,        \* per file, number of pd.read_csv calls in this process
    afford,        \* the script's global afford
    food,          \* the script's global food
    items,         \* the script's global items
    tags,          \* the script's global tags
    view,          \* the script's global view
    w_view,        \* widget state: navigation selectbox
    w_item,        \* widget state: item selectbox (0: no choice made)
    w_metric,      \* widget state: metric radio
    w_gran,        \* widget state: granularity radio
    calls,         \* render routines invoked in this run, in order
    page,          \* charts, tables and footer emitted in this run, in order
    error          \* the file whose read raised in this run ("" if none)

vars == <<disk, pandas_fill, pc, runs, nreads, afford, food, items, tags, view,
          w_view, w_item, w_metric, w_gran, calls, page, error>>

-----------------------------------------------------------------------------
(* Bounds of the model.                                                    *)

\* script runs per process (the first run plus MaxRuns - 1 interactions)
MaxRuns == 4
\* distinct items in food_afford.csv
MaxItems == 12
\* distinct dates in food_afford.csv of the category specification
MaxDates == 14
\* rows (months) in affordability_final.csv
MaxMonths == 25

(* Constants of the program.                                               *)

\* pct_change(periods=12)
Lag == 12
\* head(5) / tail(5)
TopN == 5
\* first year of the data, "(2014-2024)"
BaseYear == 2014

-----------------------------------------------------------------------------
(* Numbers.                                                                *)

NaN == << >>

Num(n) == <<n, 1>>

IsNaN(x) == x = NaN

\* exact equality and order of two rationals with positive denominators
REq(a, b) == a[1] * b[2] = b[1] * a[2]

RLess(a, b) == a[1] * b[2] < b[1] * a[2]

\* float arithmetic: a missing operand gives a missing result
FSub(a, b) ==
    IF IsNaN(a) \/ IsNaN(b) THEN NaN
    ELSE <<a[1] * b[2] - b[1] * a[2], a[2] * b[2]>>

FMul(a, b) ==
    IF IsNaN(a) \/ IsNaN(b) THEN NaN
    ELSE <<a[1] * b[1], a[2] * b[2]>>

FDiv(a, b) ==
    IF IsNaN(a) \/ IsNaN(b) THEN NaN
    ELSE <<a[1] * b[2], a[2] * b[1]>>

\* equality of two cells: both missing, or both present and equal
FEq(a, b) ==
    IF IsNaN(a) \/ IsNaN(b) THEN IsNaN(a) /\ IsNaN(b) ELSE REq(a, b)

-----------------------------------------------------------------------------
(* Sequences.                                                              *)

RECURSIVE SelectRange(_, _, _, _)
\* the rows of s at the positions lo..hi that are in keep, in the order of s
SelectRange(s, keep, lo, hi) ==
    IF lo > hi THEN << >>
    ELSE IF lo = hi THEN (IF lo \in keep THEN <<s[lo]>> ELSE << >>)
    ELSE LET mid == (lo + hi) \div 2
         IN  SelectRange(s, keep, lo, mid) \o SelectRange(s, keep, mid + 1, hi)

\* the rows of s at the positions in keep, in the order of s
SelectRows(s, keep) == SelectRange(s, keep, 1, Len(s))

RECURSIVE SortedSeq(_)
\* the elements of a finite set of integers in ascending order
SortedSeq(S) ==
    IF S = {} THEN << >>
    ELSE LET m == CHOOSE x \in S : \A y \in S : x <= y
         IN  <<m>> \o SortedSeq(S \ {m})

RECURSIVE SumCells(_)
\* sum of the present integer cells of a sequence (pandas skips NaN)
SumCells(s) ==
    IF s = << >> THEN 0
    ELSE (IF IsNaN(Head(s)) THEN 0 ELSE Head(s)[1]) + SumCells(Tail(s))

RECURSIVE SumSquares(_)
SumSquares(s) ==
    IF s = << >> THEN 0
    ELSE (IF IsNaN(Head(s)) THEN 0 ELSE Head(s)[1] * Head(s)[1])
         + SumSquares(Tail(s))

\* number of present cells
CountCells(s) == Cardinality({i \in 1..Len(s) : ~IsNaN(s[i])})

-----------------------------------------------------------------------------
(* The files of ../data.  A date is written <<year, month>> in a file, as  *)
(* the text "YYYY-MM-01" is: texts of that form compare as the pairs do.   *)

FileOrder ==
    <<"affordability_final.csv", "food_afford.csv", "item_summary.csv",
      "tag_summary.csv">>

FileNames == {FileOrder[i] : i \in 1..Len(FileOrder)}

FileStatus == {"ok", "missing", "malformed"}

\* the k-th month (k = 0, 1, ...) counted from January of BaseYear
MakeDate(k) == <<BaseYear + (k \div 12), (k % 12) + 1>>

DateLess(a, b) == a[1] < b[1] \/ (a[1] = b[1] /\ a[2] < b[2])

\* the nutrition tag of item k: items 1..3 are Healthy, later ones alternate
TagOf(k) ==
    IF k <= 3 THEN "Healthy" ELSE IF k % 2 = 0 THEN "Neutral" ELSE "Unhealthy"

\* the price of item k at the d-th date
PriceOf(pat, k, d) ==
    CASE pat = "flat" -> k * k
      [] pat = "ramp" -> k * k + k * d
      [] pat = "wave" -> 20 + k + (k % 3) * d
      [] OTHER        -> 3

FoodRow(pat, k, d) ==
    [Item |-> k, Date |-> MakeDate(d - 1),
     Price_per_kg_or_litre |-> Num(PriceOf(pat, k, d)), Tag |-> TagOf(k)]

\* food_afford.csv: n items at nd dates, one row per (item, date), written
\* date by date or item by item; the tag gapTag has no row at date gapDate
FoodFile(n, nd, pat, order, gapTag, gapDate) ==
    LET at(j) == IF order = "by_date"
                 THEN FoodRow(pat, ((j - 1) % n) + 1, ((j - 1) \div n) + 1)
                 ELSE FoodRow(pat, ((j - 1) \div nd) + 1, ((j - 1) % nd) + 1)
        all == [j \in 1..(n * nd) |-> at(j)]
    IN  SelectRows(all, {j \in 1..(n * nd) :
                           ~(all[j].Tag = gapTag
                             /\ all[j].Date = MakeDate(gapDate - 1))})

BasketOf(pat, i) == IF pat = "flat" THEN 100 ELSE 100 + i

\* affordability_final.csv: n consecutive months from month start of
\* BaseYear; the cell of column mc in row mr is empty (mr = 0: none is)
AffordFile(n, start, pat, mr, mc) ==
    [i \in 1..n |->
        LET cell(c, v) == IF i = mr /\ c = mc THEN NaN ELSE Num(v)
        IN  [Date |-> MakeDate(start + i - 1),
             Basket_Cost_Euro |-> cell("Basket_Cost_Euro", BasketOf(pat, i)),
             Affordability_Ratio |-> cell("Affordability_Ratio", 9 - (i \div 12)),
             Affordability_Index |-> cell("Affordability_Index", 102 - i)]]

AffordColumns ==
    {"Basket_Cost_Euro", "Affordability_Ratio", "Affordability_Index"}

ItemSummaryFile == <<[Item |-> 1, mean |-> Num(1)]>>

TagSummaryFile == <<[Tag |-> "Healthy", mean |-> Num(1)]>>

MakeDisk(st, affordRows, foodRows) ==
    [f \in FileNames |->
        [status |-> st[f],
         rows |-> CASE f = "affordability_final.csv" -> affordRows
                    [] f = "food_afford.csv" -> foodRows
                    [] f = "item_summary.csv" -> ItemSummaryFile
                    [] OTHER -> TagSummaryFile]]

AllOk == [f \in FileNames |-> "ok"]

-----------------------------------------------------------------------------
(* pd.read_csv.                                                            *)

\* parse_dates=["Date"]: the text of a date becomes a timestamp, here the
\* month ordinal
ParseDate(d) == 12 * d[1] + (d[2] - 1)

\* Series.dt.year of a timestamp
YearOf(t) == t \div 12

NotLoaded == [loaded |-> FALSE, rows |-> << >>]

\* the frame pd.read_csv returns for a well-formed file
ReadCsv(f, parseDates) ==
    LET rows == disk[f].rows
    IN  [loaded |-> TRUE,
         rows |-> IF parseDates
                  THEN [i \in 1..Len(rows) |->
                          [rows[i] EXCEPT !.Date = ParseDate(rows[i].Date)]]
                  ELSE rows]

-----------------------------------------------------------------------------
(* pandas: Series reductions (missing values are skipped).                 *)

MeanOf(cells) ==
    IF CountCells(cells) = 0 THEN NaN
    ELSE <<SumCells(cells), CountCells(cells)>>

\* mean() where sum() is meant
MeanInsteadOfSum(cells) ==
    IF CountCells(cells) = 0 THEN NaN
    ELSE <<SumCells(cells), CountCells(cells)>>

SumOf(cells) == <<SumCells(cells), 1>>

\* std() is the square root of the sample variance (ddof = 1), which is
\* missing for fewer than two values.  The model keeps the variance: the
\* square root does not change the order of two items.
StdOf(cells) ==
    LET n == CountCells(cells)
    IN  IF n < 2 THEN NaN
        ELSE <<n * SumSquares(cells) - SumCells(cells) * SumCells(cells),
               n * (n - 1)>>

RECURSIVE SortInts(_)
\* integers in ascending order, duplicates kept
SortInts(s) ==
    IF s = << >> THEN << >>
    ELSE LET n == Len(s)
             front == SortInts(SubSeq(s, 1, n - 1))
             k == Cardinality({j \in 1..Len(front) : front[j] <= s[n]})
         IN  SubSeq(front, 1, k) \o <<s[n]>> \o SubSeq(front, k + 1, Len(front))

MedianOf(cells) ==
    LET present == SelectRows(cells, {i \in 1..Len(cells) : ~IsNaN(cells[i])})
        v == SortInts([i \in 1..Len(present) |-> present[i][1]])
        n == Len(v)
    IN  IF n = 0 THEN NaN
        ELSE IF n % 2 = 1 THEN Num(v[(n + 1) \div 2])
        ELSE <<v[n \div 2] + v[(n \div 2) + 1], 2>>

\* the column col of a frame
Column(rows, col) == [i \in 1..Len(rows) |-> rows[i][col]]

\* Series.pct_change(periods) on one column, then "* 100".  pandas before
\* 3.0 first fills a missing value with the last value above it
\* (fill_method='pad'); pandas 3.0 does not fill.
FFill(s) ==
    [i \in 1..Len(s) |->
        LET P == {j \in 1..i : ~IsNaN(s[j])}
        IN  IF P = {} THEN NaN ELSE s[CHOOSE j \in P : \A k \in P : k <= j]]

PctChange(s, periods) ==
    LET data == IF pandas_fill = "pad" THEN FFill(s) ELSE s
    IN  [i \in 1..Len(s) |->
            IF i <= periods THEN NaN
            ELSE FMul(FSub(FDiv(data[i], data[i - periods]), Num(1)), Num(100))]

\* columns that hold keys; the files of the model have no empty key cell
KeyColumns == {"Date", "Year", "Item", "Tag"}

\* DataFrame.dropna(): the rows with no missing value in any column
DropNa(rows) ==
    SelectRows(rows, {i \in 1..Len(rows) :
                        \A c \in (DOMAIN rows[i]) \ KeyColumns : ~IsNaN(rows[i][c])})

\* df[col] = values, on a frame given by its rows
WithColumn(rows, col, values) ==
    [i \in 1..Len(rows) |->
        [c \in (DOMAIN rows[i]) \cup {col} |->
            IF c = col THEN values[i] ELSE rows[i][c]]]

\* head(n) and tail(n)
HeadN(s, n) == SubSeq(s, 1, IF Len(s) < n THEN Len(s) ELSE n)

TailN(s, n) == SubSeq(s, IF Len(s) < n THEN 1 ELSE Len(s) - n + 1, Len(s))

-----------------------------------------------------------------------------
(* What a run emits.                                                       *)

\* a plotly chart or a table: the frame it is given and the columns drawn
Chart(fig, kind, frame, x, y) ==
    [fig |-> fig, kind |-> kind, frame |-> frame, x |-> x, y |-> y]

Footer == Chart("footer", "caption", << >>, "", "")

\* the points of a chart, in the order they are drawn
Points(el) == [i \in 1..Len(el.frame) |-> <<el.frame[i][el.x], el.frame[i][el.y]>>]

\* the charts and tables (not the footer) of a page
Figures(pg) == SelectRows(pg, {i \in 1..Len(pg) : pg[i].kind # "caption"})

-----------------------------------------------------------------------------
(* render_item_level.                                                      *)

\* sorted(food['Item'].unique()): items are numbered in alphabetical order
ItemOptions(rows) == SortedSeq({rows[i].Item : i \in 1..Len(rows)})

\* the selectbox returns the user's choice, or the first option by default
ItemSelected(rows) ==
    LET opts == ItemOptions(rows)
    IN  IF \E k \in 1..Len(opts) : opts[k] = w_item THEN w_item ELSE opts[1]

\* a filter with <= in place of ==
FilterItemUpTo(rows, it) ==
    SelectRows(rows, {i \in 1..Len(rows) : rows[i].Item <= it})

\* food[food['Item'] == item_selected]
FilterItem(rows, it) ==
    SelectRows(rows, {i \in 1..Len(rows) : rows[i].Item = it})

\* food.groupby('Item')['Price_per_kg_or_litre'].<agg>(): one entry per
\* item, in the order of the items
GroupByItem(rows, Agg(_)) ==
    LET keys == ItemOptions(rows)
    IN  [k \in 1..Len(keys) |->
            [Item |-> keys[k],
             value |-> Agg(Column(SelectRows(rows, {i \in 1..Len(rows) :
                                                      rows[i].Item = keys[k]}),
                                  "Price_per_kg_or_litre"))]]

RECURSIVE SortValuesDesc(_)
\* sort_values(ascending=False): largest first, missing values last, equal
\* values in the order they had
SortValuesDesc(s) ==
    IF s = << >> THEN << >>
    ELSE LET n == Len(s)
             front == SortValuesDesc(SubSeq(s, 1, n - 1))
             x == s[n].value
             stays(j) == IsNaN(x)
                         \/ (~IsNaN(front[j].value) /\ ~RLess(front[j].value, x))
             k == Cardinality({j \in 1..Len(front) : stays(j)})
         IN  SubSeq(front, 1, k) \o <<s[n]>> \o SubSeq(front, k + 1, Len(front))

\* volatility and avg_price
Volatility(rows) == SortValuesDesc(GroupByItem(rows, StdOf))

AvgPrice(rows) == SortValuesDesc(GroupByItem(rows, MeanOf))

\* volatility.head(5) / volatility.tail(5) / avg_price.head(5) / .tail(5)
Top5(ranking) == HeadN(ranking, TopN)

\* tail(10) in place of tail(5)
Bottom10(ranking) == TailN(ranking, 2 * TopN)

Bottom5(ranking) == TailN(ranking, TopN)

ItemLevelPage(rows) ==
    <<Chart("fig", "line", FilterItem(rows, ItemSelected(rows)),
            "Date", "Price_per_kg_or_litre"),
      Chart("top5_most_vol", "table", Top5(Volatility(rows)), "Item", "value"),
      Chart("top5_least_vol", "table", Bottom5(Volatility(rows)), "Item", "value"),
      Chart("top5_expensive", "table", Top5(AvgPrice(rows)), "Item", "value"),
      Chart("top5_cheap", "table", Bottom5(AvgPrice(rows)), "Item", "value")>>

-----------------------------------------------------------------------------
(* render_Category_level_Analysis.                                         *)

\* the tags in alphabetical order
TagOrder == <<"Healthy", "Neutral", "Unhealthy">>

SortedTags(S) == SelectRows(TagOrder, {i \in 1..Len(TagOrder) : TagOrder[i] \in S})

RECURSIVE SortedDates(_)
\* the dates of a set in ascending order
SortedDates(S) ==
    IF S = {} THEN << >>
    ELSE LET m == CHOOSE x \in S : \A y \in S : ~DateLess(y, x)
         IN  <<m>> \o SortedDates(S \ {m})

\* food.groupby(['Date', 'Tag'])[price].agg(['mean', 'median']) with the
\* columns renamed: one row per (Date, Tag) that has rows, sorted by the key
MonthlyStats(rows) ==
    LET ds == SortedDates({rows[i].Date : i \in 1..Len(rows)})
        ts == SortedTags({rows[i].Tag : i \in 1..Len(rows)})
        nt == Len(ts)
        pairs == [j \in 1..(Len(ds) * nt) |->
                    <<ds[((j - 1) \div nt) + 1], ts[((j - 1) % nt) + 1]>>]
        group(p) == SelectRows(rows, {i \in 1..Len(rows) :
                                        rows[i].Date = p[1] /\ rows[i].Tag = p[2]})
        present == SelectRows(pairs, {j \in 1..Len(pairs) : group(pairs[j]) # << >>})
    IN  [j \in 1..Len(present) |->
            LET cells == Column(group(present[j]), "Price_per_kg_or_litre")
            IN  [Date |-> present[j][1], Tag |-> present[j][2],
                 Monthly_Mean |-> MeanOf(cells),
                 Monthly_Median |-> MedianOf(cells)]]

\* f'Monthly_{metric_selected}'
MetricCol(metric) == IF metric = "Mean" THEN "Monthly_Mean" ELSE "Monthly_Median"

\* monthly_stats[['Date', 'Tag', metric_col]].rename(columns={metric_col: 'Price'})
MonthlyFiltered(stats, col) ==
    [j \in 1..Len(stats) |->
        [Date |-> stats[j].Date, Tag |-> stats[j].Tag, Price |-> stats[j][col]]]

\* monthly_stats.pivot(index='Date', columns='Tag', values=metric_col): one
\* series per tag over the sorted dates, missing where the tag has no row
Pivot(stats, col) ==
    LET ds == SortedDates({stats[j].Date : j \in 1..Len(stats)})
        ts == SortedTags({stats[j].Tag : j \in 1..Len(stats)})
        at(t, d) == {j \in 1..Len(stats) : stats[j].Tag = t /\ stats[j].Date = d}
    IN  [index |-> ds, columns |-> ts,
         values |-> [t \in {ts[k] : k \in 1..Len(ts)} |->
                       [i \in 1..Len(ds) |->
                          IF at(t, ds[i]) = {} THEN NaN
                          ELSE stats[CHOOSE j \in at(t, ds[i]) : TRUE][col]]]]

\* pivot.pct_change(periods=12) * 100
YoY(pv) ==
    [index |-> pv.index, columns |-> pv.columns,
     values |-> [t \in DOMAIN pv.values |-> PctChange(pv.values[t], Lag)]]

\* yoy.reset_index().melt(id_vars='Date', var_name='Tag',
\* value_name='YoY_Change'): column after column, each over all the dates
Melt(wide) ==
    LET nd == Len(wide.index)
    IN  [j \in 1..(nd * Len(wide.columns)) |->
            LET t == wide.columns[((j - 1) \div nd) + 1]
                i == ((j - 1) % nd) + 1
            IN  [Date |-> wide.index[i], Tag |-> t,
                 YoY_Change |-> wide.values[t][i]]]

CategoryPage(rows, metric) ==
    LET monthly_stats == MonthlyStats(rows)
        metric_col == MetricCol(metric)
    IN  <<Chart("fig_price", "line", MonthlyFiltered(monthly_stats, metric_col),
                "Date", "Price"),
          Chart("fig_yoy", "line", Melt(YoY(Pivot(monthly_stats, metric_col))),
                "Date", "YoY_Change"),
          Chart("summary_df", "table", << >>, "", "")>>

-----------------------------------------------------------------------------
(* render_affordability.  Frames are objects: the routine works on a heap  *)
(* that maps a name to the rows of the frame object it is bound to.        *)

\* no copy: the new name is bound to the frame object of src itself
DfAlias(heap, src, new) == [heap |-> heap, ref |-> src]

\* DataFrame.copy(): a new frame object with the rows of src, bound to new
DfCopy(heap, src, new) ==
    [heap |-> [r \in (DOMAIN heap) \cup {new} |->
                 IF r = new THEN heap[src] ELSE heap[r]],
     ref |-> new]

\* df[col] = values: the frame object ref is changed in place
SetColumn(heap, ref, col, values) ==
    [heap EXCEPT ![ref] = WithColumn(heap[ref], col, values)]

\* afford.groupby(afford['Date'].dt.year)[col].<agg>().reset_index() and
\* .columns = ["Year", name]: one row per year, in the order of the years
GroupByYear(rows, col, Agg(_), name) ==
    LET years == SortedSeq({YearOf(rows[i].Date) : i \in 1..Len(rows)})
        group(y) == SelectRows(rows, {i \in 1..Len(rows) : YearOf(rows[i].Date) = y})
    IN  [k \in 1..Len(years) |->
            [c \in {"Year", name} |->
                IF c = "Year" THEN years[k]
                ELSE Agg(Column(group(years[k]), col))]]

\* lines 255-329, the first if / else on view_type: what is emitted, and the
\* rows of the global afford afterwards
BasketCharts(rows, view_type) ==
    IF view_type = "Monthly"
    THEN LET h0 == [r \in {"afford"} |-> rows]
             fig_monthly == Chart("fig_monthly", "line", h0["afford"],
                                  "Date", "Basket_Cost_Euro")
             cp == DfCopy(h0, "afford", "monthly_yoy")
             h1 == SetColumn(cp.heap, cp.ref, "Monthly_YoY_%",
                             PctChange(Column(cp.heap[cp.ref], "Basket_Cost_Euro"),
                                       Lag))
             fig_monthly_yoy == Chart("fig_monthly_yoy", "line", DropNa(h1[cp.ref]),
                                      "Date", "Monthly_YoY_%")
         IN  [page |-> <<fig_monthly, fig_monthly_yoy>>, afford |-> h1["afford"]]
    ELSE LET yearly_avg == GroupByYear(rows, "Basket_Cost_Euro", MeanOf,
                                       "Avg_Basket_Cost")
             fig_basket == Chart("fig_basket", "bar", yearly_avg,
                                 "Year", "Avg_Basket_Cost")
             yearly_avg2 == WithColumn(yearly_avg, "YoY Change (%)",
                               PctChange(Column(yearly_avg, "Avg_Basket_Cost"), 1))
             fig_yoy == Chart("fig_yoy", "bar", DropNa(yearly_avg2),
                              "Year", "YoY Change (%)")
             yearly_total == GroupByYear(rows, "Basket_Cost_Euro", SumOf,
                                         "Total_Basket_Cost")
             fig_total == Chart("fig_total", "bar", yearly_total,
                                "Year", "Total_Basket_Cost")
         IN  [page |-> <<fig_basket, fig_yoy, fig_total>>, afford |-> rows]

\* lines 331-341: the affordability ratio, in both branches
RatioChart(rows) ==
    Chart("fig_ratio", "line", rows, "Date", "Affordability_Ratio")

\* a second if / else that draws the annual index for either granularity
IndexChartAnnualOnly(rows, view_type) ==
    Chart("fig_index_annual", "bar",
          GroupByYear(rows, "Affordability_Index", MeanOf, "Avg_Index"),
          "Year", "Avg_Index")

\* lines 346-367, the second if / else on view_type
IndexChart(rows, view_type) ==
    IF view_type = "Monthly"
    THEN Chart("fig_index_monthly", "line", rows, "Date", "Affordability_Index")
    ELSE Chart("fig_index_annual", "bar",
               GroupByYear(rows, "Affordability_Index", MeanOf, "Avg_Index"),
               "Year", "Avg_Index")

Affordability(rows, view_type) ==
    LET basket == BasketCharts(rows, view_type)
    IN  [page |-> basket.page \o <<RatioChart(basket.afford),
                                   IndexChart(basket.afford, view_type)>>,
         afford |-> basket.afford]

-----------------------------------------------------------------------------
(* The script, one action per step.                                        *)

ViewOptions ==
    <<"Project Overview", "Affordability Overview", "Item-Level Analysis",
      "Category-Level Analysis">>

ViewLabels == {ViewOptions[i] : i \in 1..Len(ViewOptions)}

\* a selection that is none of the four labels
Unrecognized == "Unrecognized"

Metrics == {"Mean", "Median"}

Granularities == {"Monthly", "Annual"}

\* a cached loader: the file is read on the first call only
CountReadCached(f) == IF nreads[f] = 0 THEN [nreads EXCEPT ![f] = 1] ELSE nreads

\* pd.read_csv is called: one more read of file f
CountRead(f) == [nreads EXCEPT ![f] = @ + 1]

\* line 27: afford = pd.read_csv(..., parse_dates=["Date"])
LoadAfford ==
    /\ pc = "load_afford"
    /\ nreads' = CountRead("affordability_final.csv")
    /\ IF disk["affordability_final.csv"].status = "ok"
       THEN /\ afford' = ReadCsv("affordability_final.csv", TRUE)
            /\ pc' = "load_food"
            /\ error' = error
       ELSE /\ afford' = afford
            /\ pc' = "error"
            /\ error' = "affordability_final.csv"
    /\ UNCHANGED <<disk, pandas_fill, runs, food, items, tags, view, w_view,
                   w_item, w_metric, w_gran, calls, page>>

\* line 28: food = pd.read_csv(...)
LoadFood ==
    /\ pc = "load_food"
    /\ nreads' = CountRead("food_afford.csv")
    /\ IF disk["food_afford.csv"].status = "ok"
       THEN /\ food' = ReadCsv("food_afford.csv", FALSE)
            /\ pc' = "load_items"
            /\ error' = error
       ELSE /\ food' = food
            /\ pc' = "error"
            /\ error' = "food_afford.csv"
    /\ UNCHANGED <<disk, pandas_fill, runs, afford, items, tags, view, w_view,
                   w_item, w_metric, w_gran, calls, page>>

\* the third read in a try / except that goes on with an empty frame
LoadItemsIgnoringFailure ==
    /\ pc = "load_items"
    /\ nreads' = CountRead("item_summary.csv")
    /\ items' = IF disk["item_summary.csv"].status = "ok"
                THEN ReadCsv("item_summary.csv", FALSE)
                ELSE [loaded |-> TRUE, rows |-> << >>]
    /\ pc' = "load_tags"
    /\ error' = error
    /\ UNCHANGED <<disk, pandas_fill, runs, afford, food, tags, view, w_view,
                   w_item, w_metric, w_gran, calls, page>>

\* line 29: items = pd.read_csv(...)
LoadItems ==
    /\ pc = "load_items"
    /\ nreads' = CountRead("item_summary.csv")
    /\ IF disk["item_summary.csv"].status = "ok"
       THEN /\ items' = ReadCsv("item_summary.csv", FALSE)
            /\ pc' = "load_tags"
            /\ error' = error
       ELSE /\ items' = items
            /\ pc' = "error"
            /\ error' = "item_summary.csv"
    /\ UNCHANGED <<disk, pandas_fill, runs, afford, food, tags, view, w_view,
                   w_item, w_metric, w_gran, calls, page>>

\* line 30: tags = pd.read_csv(...)
LoadTags ==
    /\ pc = "load_tags"
    /\ nreads' = CountRead("tag_summary.csv")
    /\ IF disk["tag_summary.csv"].status = "ok"
       THEN /\ tags' = ReadCsv("tag_summary.csv", FALSE)
            /\ pc' = "sidebar"
            /\ error' = error
       ELSE /\ tags' = tags
            /\ pc' = "error"
            /\ error' = "tag_summary.csv"
    /\ UNCHANGED <<disk, pandas_fill, runs, afford, food, items, view, w_view,
                   w_item, w_metric, w_gran, calls, page>>

\* lines 36-40: view = st.selectbox(...), the widget's current value
Sidebar ==
    /\ pc = "sidebar"
    /\ view' = w_view
    /\ pc' = "route"
    /\ UNCHANGED <<disk, pandas_fill, runs, nreads, afford, food, items, tags,
                   w_view, w_item, w_metric, w_gran, calls, page, error>>

\* the chain with the Item-Level and Category-Level branches exchanged
RouterSwapped(v) ==
    CASE v = "Project Overview" -> "render_home"
      [] v = "Item-Level Analysis" -> "render_Category_level_Analysis"
      [] v = "Category-Level Analysis" -> "render_item_level"
      [] v = "Affordability Overview" -> "render_affordability"
      [] OTHER -> "footer"

\* lines 389-399: the if / elif chain; with no branch taken the script goes
\* on to the footer
Router(v) ==
    CASE v = "Project Overview" -> "render_home"
      [] v = "Item-Level Analysis" -> "render_item_level"
      [] v = "Category-Level Analysis" -> "render_Category_level_Analysis"
      [] v = "Affordability Overview" -> "render_affordability"
      [] OTHER -> "footer"

Route ==
    /\ pc = "route"
    /\ pc' = Router(view)
    /\ UNCHANGED <<disk, pandas_fill, runs, nreads, afford, food, items, tags,
                   view, w_view, w_item, w_metric, w_gran, calls, page, error>>

\* render_home(): text only
RenderHome ==
    /\ pc = "render_home"
    /\ calls' = Append(calls, "render_home")
    /\ pc' = "footer"
    /\ UNCHANGED <<disk, pandas_fill, runs, nreads, afford, food, items, tags,
                   view, w_view, w_item, w_metric, w_gran, page, error>>

\* render_item_level(): reads food, assigns to no frame
RenderItemLevel ==
    /\ pc = "render_item_level"
    /\ calls' = Append(calls, "render_item_level")
    /\ page' = page \o ItemLevelPage(food.rows)
    /\ pc' = "footer"
    /\ UNCHANGED <<disk, pandas_fill, runs, nreads, afford, food, items, tags,
                   view, w_view, w_item, w_metric, w_gran, error>>

\* render_Category_level_Analysis(): reads food, assigns to no frame
RenderCategory ==
    /\ pc = "render_Category_level_Analysis"
    /\ calls' = Append(calls, "render_Category_level_Analysis")
    /\ page' = page \o CategoryPage(food.rows, w_metric)
    /\ pc' = "footer"
    /\ UNCHANGED <<disk, pandas_fill, runs, nreads, afford, food, items, tags,
                   view, w_view, w_item, w_metric, w_gran, error>>

\* render_affordability()
RenderAffordability ==
    /\ pc = "render_affordability"
    /\ calls' = Append(calls, "render_affordability")
    /\ LET out == Affordability(afford.rows, w_gran)
       IN  /\ page' = page \o out.page
           /\ afford' = [afford EXCEPT !.rows = out.afford]
    /\ pc' = "footer"
    /\ UNCHANGED <<disk, pandas_fill, runs, nreads, food, items, tags,
                   view, w_view, w_item, w_metric, w_gran, error>>

\* lines 404-405: the footer
EmitFooter ==
    /\ pc = "footer"
    /\ page' = Append(page, Footer)
    /\ pc' = "done"
    /\ UNCHANGED <<disk, pandas_fill, runs, nreads, afford, food, items, tags,
                   view, w_view, w_item, w_metric, w_gran, calls, error>>

-----------------------------------------------------------------------------
(* The user.  Changing a widget of the finished page makes Streamlit run   *)
(* the script again from its first line, in a fresh namespace; the state   *)
(* of a widget the last run did not draw is dropped.                       *)

Rerun ==
    /\ runs < MaxRuns
    /\ runs' = runs + 1
    /\ pc' = "load_afford"
    /\ afford' = NotLoaded
    /\ food' = NotLoaded
    /\ items' = NotLoaded
    /\ tags' = NotLoaded
    /\ view' = ""
    /\ calls' = << >>
    /\ page' = << >>
    /\ error' = ""
    /\ UNCHANGED <<disk, pandas_fill, nreads>>

SelectView(v) ==
    /\ pc = "done"
    /\ v # w_view
    /\ w_view' = v
    /\ w_item' = 0
    /\ w_metric' = "Mean"
    /\ w_gran' = "Monthly"
    /\ Rerun

SelectItem(i) ==
    /\ pc = "done"
    /\ calls = <<"render_item_level">>
    /\ \E k \in 1..Len(ItemOptions(food.rows)) : ItemOptions(food.rows)[k] = i
    /\ i # ItemSelected(food.rows)
    /\ w_item' = i
    /\ UNCHANGED <<w_view, w_metric, w_gran>>
    /\ Rerun

SelectMetric(m) ==
    /\ pc = "done"
    /\ calls = <<"render_Category_level_Analysis">>
    /\ m # w_metric
    /\ w_metric' = m
    /\ UNCHANGED <<w_view, w_item, w_gran>>
    /\ Rerun

SelectGranularity(g) ==
    /\ pc = "done"
    /\ calls = <<"render_affordability">>
    /\ g # w_gran
    /\ w_gran' = g
    /\ UNCHANGED <<w_view, w_item, w_metric>>
    /\ Rerun

\* the script and its user
Run ==
    \/ LoadAfford
    \/ LoadFood
    \/ LoadItems
    \/ LoadTags
    \/ Sidebar
    \/ Route
    \/ RenderHome
    \/ RenderItemLevel
    \/ RenderCategory
    \/ RenderAffordability
    \/ EmitFooter
    \/ \E v \in ViewLabels : SelectView(v)
    \/ \E i \in 1..MaxItems : SelectItem(i)
    \/ \E m \in Metrics : SelectMetric(m)
    \/ \E g \in Granularities : SelectGranularity(g)

\* the environment: between two runs a file of ../data is removed or
\* overwritten with something pd.read_csv cannot parse
FileDamaged(f, st) ==
    /\ pc = "done"
    /\ disk[f].status = "ok"
    /\ disk' = [disk EXCEPT ![f].status = st]
    /\ UNCHANGED <<pandas_fill, pc, runs, nreads, afford, food, items, tags,
                   view, w_view, w_item, w_metric, w_gran, calls, page, error>>

Next ==
    \/ Run
    \/ \E f \in FileNames, st \in {"missing", "malformed"} : FileDamaged(f, st)

-----------------------------------------------------------------------------
(* Initial states: the process has started and the first run is about to   *)
(* read the first file.                                                    *)

InitWith(d, v) ==
    /\ disk = d
    /\ pandas_fill \in {"pad", "none"}
    /\ pc = "load_afford"
    /\ runs = 1
    /\ nreads = [f \in FileNames |-> 0]
    /\ afford = NotLoaded
    /\ food = NotLoaded
    /\ items = NotLoaded
    /\ tags = NotLoaded
    /\ view = ""
    /\ w_view = v
    /\ w_item = 0
    /\ w_metric = "Mean"
    /\ w_gran = "Monthly"
    /\ calls = << >>
    /\ page = << >>
    /\ error = ""

\* a small table of each kind
SmallAfford == {AffordFile(Lag + 2, s, "ramp", r, "Affordability_Ratio") :
                  s \in {0, 6}, r \in {0, Lag + 1}}

SmallFood == FoodFile(4, 2, "ramp", "by_date", "", 0)

\* any of the four files may be missing or malformed
Init ==
    \E st \in [FileNames -> FileStatus], a \in SmallAfford :
        InitWith(MakeDisk(st, a, SmallFood), ViewOptions[1])

Spec == Init /\ [][Next]_vars

\* the same, with the navigation widget holding any value at all: the
\* dispatch of lines 389-399 is run on a selection the selectbox does not
\* offer as well
InitRouter ==
    \E st \in [FileNames -> FileStatus], a \in SmallAfford,
       v \in ViewLabels \cup {Unrecognized} :
        InitWith(MakeDisk(st, a, SmallFood), v)

SpecRouter == InitRouter /\ [][Next]_vars

-----------------------------------------------------------------------------
(* Specifications for the claims about the data: the files are readable    *)
(* and stay so, and one of them ranges over a family of tables.            *)

PlainAfford == AffordFile(Lag + 1, 0, "ramp", 0, "")

\* food tables of 1..MaxItems items at one or three dates
InitItems ==
    \E n \in 1..MaxItems, nd \in {1, 3}, pat \in {"flat", "ramp", "wave", "same"},
       order \in {"by_date", "by_item"} :
        InitWith(MakeDisk(AllOk, PlainAfford, FoodFile(n, nd, pat, order, "", 0)),
                 ViewOptions[1])

SpecItems == InitItems /\ [][Run]_vars

\* food tables over Lag - 1 .. MaxDates dates: every tag priced at every
\* date, or the tag Neutral without a row at one date
CategoryFood ==
    {FoodFile(n, nd, pat, "by_date", "", 0) :
        n \in {4, 5}, nd \in (Lag - 1)..MaxDates, pat \in {"flat", "ramp", "same"}}
    \cup {FoodFile(4, MaxDates, "ramp", "by_date", "Neutral", g) : g \in 1..MaxDates}

InitCategory ==
    \E f \in CategoryFood : InitWith(MakeDisk(AllOk, PlainAfford, f), ViewOptions[1])

SpecCategory == InitCategory /\ [][Run]_vars

\* affordability tables of Lag - 1 .. MaxMonths months from January or July:
\* every cell filled, or one cell of a table of Lag + 2 months empty
AffordTables ==
    {AffordFile(n, s, pat, 0, "") :
        n \in (Lag - 1)..MaxMonths, s \in {0, 6}, pat \in {"flat", "ramp"}}
    \cup {AffordFile(Lag + 2, 0, "ramp", r, c) : r \in 1..(Lag + 2), c \in AffordColumns}

InitAfford ==
    \E a \in AffordTables : InitWith(MakeDisk(AllOk, a, SmallFood), ViewOptions[1])

SpecAfford == InitAfford /\ [][Run]_vars

-----------------------------------------------------------------------------
(* Positions of the script.                                                *)

LoadPcs == <<"load_afford", "load_food", "load_items", "load_tags">>

RenderPcs ==
    {"render_home", "render_item_level", "render_Category_level_Analysis",
     "render_affordability"}

\* the run is past the dispatch
Routed == pc \in {"footer", "done"}

\* the run is past the four reads
Loaded == pc \in {"sidebar", "route", "footer", "done"} \cup RenderPcs

-----------------------------------------------------------------------------
(* C1.  View routing: once the run is past the dispatch, exactly one       *)
(* render routine has been invoked when the selection is one of the four   *)
(* labels, and it is the matching one; for a selection outside the four    *)
(* labels no routine is invoked, no error is raised, the script goes on    *)
(* to the footer, and the finished page ends with the footer.              *)

ExpectedCalls(v) ==
    IF v = "Project Overview" THEN <<"render_home">>
    ELSE IF v = "Item-Level Analysis" THEN <<"render_item_level">>
    ELSE IF v = "Category-Level Analysis" THEN <<"render_Category_level_Analysis">>
    ELSE IF v = "Affordability Overview" THEN <<"render_affordability">>
    ELSE << >>

ViewRouting ==
    /\ Routed => calls = ExpectedCalls(view)
    /\ pc \in RenderPcs => (calls = << >> /\ ExpectedCalls(view) = <<pc>>)
    /\ (Loaded /\ pc # "sidebar" /\ view \notin ViewLabels) =>
          /\ pc \in {"route", "footer", "done"}
          /\ calls = << >>
          /\ error = ""
          /\ pc # "done" => ENABLED Run
    /\ pc = "done" => (page # << >> /\ page[Len(page)] = Footer)

\* a finished run whose selection was none of the four labels
ViewRoutingWitness ==
    /\ pc = "done"
    /\ view = Unrecognized
    /\ calls = << >>
    /\ page = <<Footer>>

-----------------------------------------------------------------------------
(* C2.  Load failure is fatal: while a file is missing or malformed the    *)
(* run gets no further than the read of the first such file; there it      *)
(* halts with the error, having read that file once in this run and no     *)
(* later file at all, with the dispatch not reached, no routine invoked    *)
(* and nothing emitted, and nothing more happens in the halted run.        *)

BadFiles == {i \in 1..Len(FileOrder) : disk[FileOrder[i]].status # "ok"}

FirstBad == CHOOSE i \in BadFiles : \A j \in BadFiles : i <= j

LoadFailureFatal ==
    /\ pc = "error" =>
          /\ BadFiles # {}
          /\ error = FileOrder[FirstBad]
          /\ \A i \in 1..Len(FileOrder) :
                nreads[FileOrder[i]] = IF i <= FirstBad THEN runs ELSE runs - 1
          /\ calls = << >>
          /\ page = << >>
          /\ view = ""
          /\ ~ENABLED Run
    /\ (BadFiles # {} /\ pc # "error" /\ pc # "done") =>
          \E i \in 1..FirstBad : pc = LoadPcs[i]
    /\ pc # "error" => error = ""

\* the third read fails in a run started from another view than the first
LoadFailureWitness ==
    /\ pc = "error"
    /\ error = "item_summary.csv"
    /\ w_view = "Affordability Overview"
    /\ runs = 2

-----------------------------------------------------------------------------
(* C3.  Rendering leaves the loaded tables alone: at every point of a run  *)
(* each table that has been loaded holds exactly what pd.read_csv gave     *)
(* for its file, whatever the view and the toggles.                        *)

TablesUnchanged ==
    /\ afford.loaded => afford = ReadCsv("affordability_final.csv", TRUE)
    /\ food.loaded => food = ReadCsv("food_afford.csv", FALSE)
    /\ items.loaded => items = ReadCsv("item_summary.csv", FALSE)
    /\ tags.loaded => tags = ReadCsv("tag_summary.csv", FALSE)
    /\ Loaded => (afford.loaded /\ food.loaded /\ items.loaded /\ tags.loaded)

\* the Monthly branch has run after the toggle went to Annual and back: the
\* charted frame has the YoY column and afford has not
TablesUnchangedWitness ==
    /\ pc = "done"
    /\ calls = <<"render_affordability">>
    /\ w_gran = "Monthly"
    /\ runs = 4
    /\ \E k \in 1..Len(page) :
          /\ page[k].fig = "fig_monthly_yoy"
          /\ page[k].frame # << >>
          /\ "Monthly_YoY_%" \in DOMAIN page[k].frame[1]
    /\ "Monthly_YoY_%" \notin DOMAIN afford.rows[1]

-----------------------------------------------------------------------------
(* C9.  As claimed: no file is read more than once in the process.         *)

LoadOnce == \A f \in FileNames : nreads[f] <= 1

(* C9, amended.  Every run of the script reads the files again: in the     *)
(* run number r each file has been read r times once the run is past its   *)
(* read and r - 1 times before, and a run starts with no table loaded.     *)

\* the number of files the current run has read
ReadsThisRun ==
    IF pc = "error"
    THEN CHOOSE i \in 1..Len(FileOrder) : FileOrder[i] = error
    ELSE IF \E i \in 1..Len(LoadPcs) : pc = LoadPcs[i]
    THEN (CHOOSE i \in 1..Len(LoadPcs) : pc = LoadPcs[i]) - 1
    ELSE Len(FileOrder)

ReadOncePerRun ==
    /\ \A i \in 1..Len(FileOrder) :
          nreads[FileOrder[i]] = IF i <= ReadsThisRun THEN runs ELSE runs - 1
    /\ pc = "load_afford" =>
          (~afford.loaded /\ ~food.loaded /\ ~items.loaded /\ ~tags.loaded)

\* a second run, started by an interaction, has read all four files again
ReadOncePerRunWitness ==
    /\ pc = "done"
    /\ runs = 2
    /\ \A f \in FileNames : nreads[f] = 2

-----------------------------------------------------------------------------
(* C10.  The charts of render_affordability follow the one toggle: the     *)
(* ratio line chart once in both branches; Monthly gives the two monthly   *)
(* charts and the monthly index line, no annual chart, four charts in      *)
(* all; Annual gives the three annual bar charts and the annual index      *)
(* bar, no monthly chart, five charts in all.                              *)

MonthlyFigs == {"fig_monthly", "fig_monthly_yoy", "fig_index_monthly"}

AnnualFigs == {"fig_basket", "fig_yoy", "fig_total", "fig_index_annual"}

FigCount(figs, name) == Cardinality({k \in 1..Len(figs) : figs[k].fig = name})

KindOf(figs, name) == figs[CHOOSE k \in 1..Len(figs) : figs[k].fig = name].kind

ChartSetFollowsToggle ==
    (Routed /\ calls = <<"render_affordability">>) =>
        LET figs == Figures(page)
            names == {figs[k].fig : k \in 1..Len(figs)}
        IN  /\ FigCount(figs, "fig_ratio") = 1
            /\ KindOf(figs, "fig_ratio") = "line"
            /\ w_gran = "Monthly" =>
                  /\ names = MonthlyFigs \cup {"fig_ratio"}
                  /\ Len(figs) = 4
                  /\ \A n \in MonthlyFigs : KindOf(figs, n) = "line"
            /\ w_gran = "Annual" =>
                  /\ names = AnnualFigs \cup {"fig_ratio"}
                  /\ Len(figs) = 5
                  /\ \A n \in AnnualFigs : KindOf(figs, n) = "bar"
            /\ w_gran \in Granularities

\* a finished Annual run: five charts, the last the per-year index bar
ChartSetWitness ==
    /\ pc = "done"
    /\ calls = <<"render_affordability">>
    /\ w_gran = "Annual"
    /\ Len(Figures(page)) = 5
    /\ page[5].fig = "fig_index_annual"
    /\ Len(page[5].frame) = 2

-----------------------------------------------------------------------------
(* C4.  Item-level rankings: in the volatility ranking and in the price    *)
(* ranking the top table holds the first 5 entries and the bottom table    *)
(* the last 5 (all of them when there are fewer than 5 items); with more   *)
(* than 10 distinct items no item is in both tables, and with exactly one  *)
(* item both tables hold that item and nothing else.                       *)

\* the table named fig of a page
TableOf(pg, fig) == pg[CHOOSE k \in 1..Len(pg) : pg[k].fig = fig].frame

ItemsIn(table) == {table[k].Item : k \in 1..Len(table)}

\* the distinct items of the file food_afford.csv
SourceItems ==
    {disk["food_afford.csv"].rows[i].Item :
        i \in 1..Len(disk["food_afford.csv"].rows)}

RankingPair(top, bottom) ==
    LET n == Cardinality(SourceItems)
        size == IF n < TopN THEN n ELSE TopN
    IN  /\ Len(top) = size
        /\ Len(bottom) = size
        /\ Cardinality(ItemsIn(top)) = size
        /\ Cardinality(ItemsIn(bottom)) = size
        /\ ItemsIn(top) \cup ItemsIn(bottom) \subseteq SourceItems
        /\ n > 2 * TopN => ItemsIn(top) \cap ItemsIn(bottom) = {}
        /\ n = 1 => (ItemsIn(top) = SourceItems /\ top = bottom)

RankingsDisjoint ==
    (Routed /\ calls = <<"render_item_level">>) =>
        /\ RankingPair(TableOf(page, "top5_most_vol"), TableOf(page, "top5_least_vol"))
        /\ RankingPair(TableOf(page, "top5_expensive"), TableOf(page, "top5_cheap"))

\* eleven items: two tables of five items each with no item in common
RankingsDisjointWitness ==
    /\ pc = "done"
    /\ calls = <<"render_item_level">>
    /\ Cardinality(SourceItems) = 2 * TopN + 1
    /\ Len(TableOf(page, "top5_most_vol")) = TopN
    /\ Len(TableOf(page, "top5_cheap")) = TopN
    /\ ItemsIn(TableOf(page, "top5_expensive")) \cap ItemsIn(TableOf(page, "top5_cheap")) = {}
    /\ TableOf(page, "top5_expensive")[1].Item = 2 * TopN + 1

-----------------------------------------------------------------------------
(* C7.  Item filter round trip: the points of the Item-Level line chart    *)
(* are the (Date, Price) pairs of exactly the rows of food_afford.csv      *)
(* whose Item is the selected item, one point per row, in file order.      *)

\* the position in rows of the k-th row of item it
NthRowOf(rows, it, k) ==
    CHOOSE i \in 1..Len(rows) :
        /\ rows[i].Item = it
        /\ Cardinality({j \in 1..i : rows[j].Item = it}) = k

ItemFilterRoundTrip ==
    (Routed /\ calls = <<"render_item_level">>) =>
        LET src == disk["food_afford.csv"].rows
            it == IF w_item = 0 THEN CHOOSE x \in SourceItems : \A y \in SourceItems : x <= y
                  ELSE w_item
            pts == Points(page[1])
        IN  /\ page[1].fig = "fig"
            /\ it \in SourceItems
            /\ Len(pts) = Cardinality({i \in 1..Len(src) : src[i].Item = it})
            /\ \A k \in 1..Len(pts) :
                  pts[k] = <<src[NthRowOf(src, it, k)].Date,
                             src[NthRowOf(src, it, k)].Price_per_kg_or_litre>>

\* the user picked item 2 of a file written date by date: its three rows
\* are charted, each between rows of other items in the file
ItemFilterWitness ==
    /\ pc = "done"
    /\ calls = <<"render_item_level">>
    /\ w_item = 2
    /\ Cardinality(SourceItems) >= 3
    /\ Len(page[1].frame) = 3
    /\ disk["food_afford.csv"].rows[1].Item = 1
    /\ disk["food_afford.csv"].rows[2].Item = 2
    /\ disk["food_afford.csv"].rows[3].Item = 3
    /\ Points(page[1])[3] = <<MakeDate(2), Num(PriceOf("ramp", 2, 3))>>

-----------------------------------------------------------------------------
(* C5.  Category-view YoY series, as claimed: the charted series has one   *)
(* point per tag and date; at date position i (0-based, dates ascending)   *)
(* the value is missing when i < 12, and when i >= 12 it is                *)
(* 100 * (v[i] - v[i-12]) / v[i-12], v being the charted monthly series    *)
(* of the selected metric (so it is missing where v[i] or v[i-12] is);     *)
(* on a constant series it is 0 at every position i >= 12.                 *)

\* 0-based position of date d among the dates of a frame
DatePos(fr, d) ==
    Cardinality({e \in {fr[k].Date : k \in 1..Len(fr)} : DateLess(e, d)})

\* the value of column col for tag t at date position i, missing if none
ValueAt(fr, col, t, i) ==
    LET S == {k \in 1..Len(fr) : fr[k].Tag = t /\ DatePos(fr, fr[k].Date) = i}
    IN  IF S = {} THEN NaN ELSE fr[CHOOSE k \in S : TRUE][col]

ClaimedYoY(now, before) == FDiv(FMul(Num(100), FSub(now, before)), before)

YoYAsClaimed ==
    (Routed /\ calls = <<"render_Category_level_Analysis">>) =>
        LET yoy == TableOf(page, "fig_yoy")
            price == TableOf(page, "fig_price")
            dates == {price[k].Date : k \in 1..Len(price)}
            tgs == {price[k].Tag : k \in 1..Len(price)}
            v(t, i) == ValueAt(price, "Price", t, i)
            flat(t) == \A i, j \in 0..(Cardinality(dates) - 1) :
                              ~IsNaN(v(t, i)) /\ REq(v(t, i), v(t, j))
        IN  /\ \A t \in tgs, d \in dates :
                  Cardinality({k \in 1..Len(yoy) :
                                 yoy[k].Tag = t /\ yoy[k].Date = d}) = 1
            /\ Len(yoy) = Cardinality(tgs) * Cardinality(dates)
            /\ \A k \in 1..Len(yoy) :
                  LET tg == yoy[k].Tag
                      pos == DatePos(price, yoy[k].Date)
                  IN  IF pos < Lag THEN IsNaN(yoy[k].YoY_Change)
                      ELSE /\ FEq(yoy[k].YoY_Change,
                                  ClaimedYoY(v(tg, pos), v(tg, pos - Lag)))
                           /\ flat(tg) => yoy[k].YoY_Change[1] = 0

-----------------------------------------------------------------------------
(* C6.  Annual total: the yearly_total chart has one bar per calendar year *)
(* of affordability_final.csv, in ascending order, and the bar of a year   *)
(* is the sum of Basket_Cost_Euro over the rows dated in that year (an     *)
(* empty cell adds nothing), so that every row is counted in one year; 24  *)
(* months from January at 100 each give 1200 for each of the two years.    *)

RECURSIVE SumBasket(_, _)
\* the sum of the filled Basket_Cost_Euro cells of the rows at positions S
SumBasket(rows, S) ==
    IF S = {} THEN 0
    ELSE LET i == CHOOSE x \in S : TRUE
             c == rows[i].Basket_Cost_Euro
         IN  (IF IsNaN(c) THEN 0 ELSE c[1]) + SumBasket(rows, S \ {i})

AnnualTotalExact ==
    (Routed /\ calls = <<"render_affordability">> /\ w_gran = "Annual") =>
        LET src == disk["affordability_final.csv"].rows
            tot == TableOf(page, "fig_total")
            years == {src[i].Date[1] : i \in 1..Len(src)}
            inYear(y) == {i \in 1..Len(src) : src[i].Date[1] = y}
        IN  /\ Len(tot) = Cardinality(years)
            /\ \A k \in 1..Len(tot) :
                  /\ tot[k].Year \in years
                  /\ k < Len(tot) => tot[k].Year < tot[k + 1].Year
                  /\ tot[k].Total_Basket_Cost = Num(SumBasket(src, inYear(tot[k].Year)))
            /\ (/\ Len(src) = 24
                /\ src[1].Date = <<BaseYear, 1>>
                /\ \A i \in 1..Len(src) : src[i].Basket_Cost_Euro = Num(100)) =>
                  tot = <<[Year |-> BaseYear, Total_Basket_Cost |-> Num(1200)],
                          [Year |-> BaseYear + 1, Total_Basket_Cost |-> Num(1200)]>>

\* 24 months from January 2014 at 100 each: two bars of 1200
AnnualTotalWitness ==
    /\ pc = "done"
    /\ calls = <<"render_affordability">>
    /\ w_gran = "Annual"
    /\ Len(afford.rows) = 24
    /\ afford.rows[1].Date = ParseDate(<<BaseYear, 1>>)
    /\ \A i \in 1..24 : afford.rows[i].Basket_Cost_Euro = Num(100)
    /\ Len(TableOf(page, "fig_total")) = 2
    /\ TableOf(page, "fig_total")[2].Total_Basket_Cost = Num(1200)

-----------------------------------------------------------------------------
(* C8.  Affordability Monthly YoY drop policy, as claimed: for a table of  *)
(* more than 12 rows the series of the monthly YoY chart is exactly the    *)
(* rows of the table from the 13th on, in order.                           *)

YoYSeriesFromRow13 ==
    (Routed /\ calls = <<"render_affordability">> /\ w_gran = "Monthly"
       /\ Len(afford.rows) > Lag) =>
        LET ser == TableOf(page, "fig_monthly_yoy")
        IN  /\ Len(ser) = Len(afford.rows) - Lag
            /\ \A k \in 1..Len(ser) :
                  \A c \in AffordColumns \cup {"Date"} :
                      ser[k][c] = afford.rows[Lag + k][c]

=============================================================================
